---- MODULE Spec2Model ----
(***************************************************************************)
(* buf_redux: BufReader<R> (src/src/lib.rs:14-246) and Unbuffer<R>         *)
(* (src/src/lib.rs:248-291) as a state machine.  One action per public     *)
(* method; the wrapped reader R (the "Source") is a seekable byte stream   *)
(* with short reads and failures.                                          *)
(*                                                                         *)
(* Machine words are scaled: usize and u64 are WordBits wide, i64 is the   *)
(* signed word of the same width.  Every wrap and underflow boundary of    *)
(* the code is kept, relative to UsizeMax, I64Min and I64Max.              *)
(***************************************************************************)
EXTENDS Integers, Sequences, FiniteSets, TLC

----------------------------------------------------------------------------
(* Bounds of the model. *)

\* width of usize / u64 / i64 in the model
WordBits == 16
\* largest argument of with_capacity
MaxCapacity == 1
\* grow is enabled while the grown buffer is at most this long
MaxBufLen == 3
\* longest Source stream that starts at position 0
MaxStream == 2
\* longest destination slice handed to read
MaxDest == 2
\* bytes delivered, and bytes read ahead, from one Source position
MaxOut == 3

(* Program constant. *)
MOVE_THRESHOLD == 1024

UsizeMax == 2^WordBits - 1
U64Max == 2^WordBits - 1
I64Max == 2^(WordBits - 1) - 1
I64Min == -(2^(WordBits - 1))

----------------------------------------------------------------------------
(* Helpers: cmp::min, cmp::max, slices. *)

Min(a, b) == IF a <= b THEN a ELSE b

Max(a, b) == IF a >= b THEN a ELSE b

\* s[from..to] with the code's zero-based, end-exclusive indices
Slice(s, from, to) == SubSeq(s, from + 1, to)

\* iter::repeat(0).take(n)
Zeros(n) == [i \in 1..n |-> 0]

\* s with `bytes` written at zero-based offset off (a copy into s[off..])
WriteAt(s, off, bytes) ==
    [i \in 1..Len(s) |->
        IF off < i /\ i <= off + Len(bytes) THEN bytes[i - off] ELSE s[i]]

----------------------------------------------------------------------------
(* The Source: `inner: R`.  A stream of `len` bytes and a cursor `at`;     *)
(* the byte at position p is a function of p and of the stream's `seed`,    *)
(* never 0, the byte grow fills the buffer with.                           *)

SourceByte(s, p) == ((s.seed + p) % 5) + 1

\* the bytes of the stream at positions from..to-1
Stream(s, from, to) ==
    [i \in 1..(IF to > from THEN Min(to, s.len) - from ELSE 0)
        |-> SourceByte(s, from + i - 1)]

\* outcomes of one Source read: 0 is an io::Error, k >= 1 is the most bytes
\* the Source hands over in this call (1: a short read, UsizeMax: all that fits)
ReadOutcomes == {0, 1, UsizeMax}

\* extra bytes the allocator delivers on a reservation
Slacks == {0, 1}

\* R::read(&mut span) with outcome o: bytes written, the bytes, the Source after
InnerRead(s, span, o) ==
    LET avail == IF s.len > s.at THEN s.len - s.at ELSE 0
        n == IF o = 0 THEN 0 ELSE Min(o, Min(span, avail))
    IN  [ok |-> o # 0,
         n |-> n,
         bytes |-> Stream(s, s.at, s.at + n),
         inner |-> [s EXCEPT !.at = @ + n]]

SeekFrom(kind, n) == [kind |-> kind, n |-> n]

\* R::seek(from); fail is an injected Source failure.  A seek to a negative or
\* overflowing position is an error; an error leaves the cursor where it was.
InnerSeek(s, from, fail) ==
    LET target == CASE from.kind = "Start" -> from.n
                    [] from.kind = "End" -> s.len + from.n
                    [] OTHER -> s.at + from.n
        ok == ~fail /\ target >= 0 /\ target <= U64Max
    IN  [ok |-> ok,
         pos |-> IF ok THEN target ELSE 0,
         inner |-> IF ok THEN [s EXCEPT !.at = target] ELSE s]

----------------------------------------------------------------------------
(* State. *)

VARIABLES
    phase,      \* "reader": a BufReader; "unbuffer": the Unbuffer it became;
                \*   "detached": consumed by into_inner_with_buf
    inner,      \* the Source: [len, seed, at]
    buf,        \* Vec<u8>: the buffer's bytes, Len(buf) = buf.len()
    vcap,       \* buf.capacity()
    pos,        \* read cursor
    cap,        \* end of the valid data (BufReader only)
    base,       \* history: Source position of the first byte of `out`
    out,        \* history: the bytes handed to the caller (returned by a read
                \*   or stepped over by consume) since the last make_room or
                \*   successful seek, up to the first consume that wrapped
    wrapped,    \* history: a consume since the last successful seek
                \*   overflowed pos + amt and wrapped; `base` and `out` are
                \*   kept as they were from then on
    last        \* history: the last call and what it returned

vars == <<phase, inner, buf, vcap, pos, cap, base, out, wrapped, last>>

\* the record of a call: op(arg) returned Ok(ret) (ok) or Err, handed `got`
\* to the caller, called R::read `reads` times and R::seek with `sought`
Call(op, arg, ok, ret, got, reads, sought) ==
    [op |-> op, arg |-> arg, ok |-> ok, ret |-> ret, got |-> got,
     reads |-> reads, sought |-> sought]

----------------------------------------------------------------------------
(* BufReader: accessors. *)

\* get_buf(): &self.buf[self.pos .. self.cap]
GetBuf == Slice(buf, pos, cap)

\* available(): self.cap - self.pos
Available == cap - pos

\* capacity(): self.buf.len()
Capacity == Len(buf)

----------------------------------------------------------------------------
(* BufReader::grow and with_capacity. *)

\* Vec::reserve_exact(additional): the capacity afterwards
ReserveExact(len, vc, additional, slack) ==
    IF vc - len >= additional THEN vc ELSE len + additional + slack

\* Vec::extend by n elements: the capacity afterwards (amortized growth)
ExtendCapacity(len, vc, n) ==
    IF len + n <= vc THEN vc ELSE Max(Max(2 * vc, len + n), 8)

\* a grow that allocates the longer buffer without copying the old bytes
GrowVecFresh(b, vc, additional, slack) ==
    LET reserved == ReserveExact(Len(b), vc, additional, slack)
        add == Max(additional, reserved)
    IN  [buf |-> Zeros(Len(b) + add),
         vcap |-> ExtendCapacity(Len(b), reserved, add)]

\* grow(additional) on a Vec of bytes b with capacity vc
GrowVec(b, vc, additional, slack) ==
    LET reserved == ReserveExact(Len(b), vc, additional, slack)
        add == Max(additional, reserved)
    IN  [buf |-> b \o Zeros(add),
         vcap |-> ExtendCapacity(Len(b), reserved, add)]

----------------------------------------------------------------------------
(* BufReader::make_room. *)

MakeRoomOf(b, p, c) ==
    IF p = c \/ p = 0
    THEN [buf |-> b, pos |-> 0, cap |-> 0]
    ELSE [buf |-> WriteAt(b, 0, Slice(b, p, c)), pos |-> 0, cap |-> c - p]

----------------------------------------------------------------------------
(* BufRead::consume. *)

\* self.pos + amt in usize: the sum, or its wrapped value
UsizeAdd(a, b) == (a + b) % (UsizeMax + 1)

UsizeOverflows(a, b) == a + b > UsizeMax

\* consume without the clamp to cap
ConsumePosUnclamped(p, c, amt) == UsizeAdd(p, amt)

\* cmp::min(self.pos + amt, self.cap)
ConsumePos(p, c, amt) == Min(UsizeAdd(p, amt), c)

----------------------------------------------------------------------------
(* Initial states: BufReader::with_capacity(c, inner).                     *)

\* Sources that start at position 0 and hold `len` bytes
Sources == [len : 0..MaxStream, seed : {0}, at : {0}]

\* a Source long enough to be read past position I64Max
FarSource == [len |-> I64Max + 1 + MaxStream, seed |-> 1, at |-> 0]

InitWith(sources, capacities, slacks) ==
    \E s \in sources, c \in capacities, slack \in slacks :
        LET g == GrowVec(<<>>, 0, c, slack) IN
        /\ phase = "reader"
        /\ inner = s
        /\ buf = g.buf
        /\ vcap = g.vcap
        /\ pos = 0
        /\ cap = 0
        /\ base = 0
        /\ out = <<>>
        /\ wrapped = FALSE
        /\ last = Call("with_capacity", c, TRUE, 0, <<>>, 0, <<>>)

Init == InitWith(Sources, 0..MaxCapacity, Slacks)

InitSeek == InitWith({FarSource}, {MaxCapacity + 1}, {0})

----------------------------------------------------------------------------
(* Pure steps of the handlers: each returns the fields it leaves behind.   *)

\* a fill_buf that takes a failed Source read for a read of 0 bytes
FillBufOfMasked(b, p, c, s, o) ==
    IF p = c
    THEN LET r == InnerRead(s, Len(b), o) IN
         [ok |-> TRUE, buf |-> WriteAt(b, 0, r.bytes), pos |-> 0,
          cap |-> r.n, inner |-> r.inner, reads |-> 1]
    ELSE [ok |-> TRUE, buf |-> b, pos |-> p, cap |-> c, inner |-> s,
          reads |-> 0]

\* a fill_buf that reads more into the tail when bytes are already buffered
FillBufOfAlways(b, p, c, s, o) ==
    LET at0 == IF p = c THEN 0 ELSE c
        r == InnerRead(s, Len(b) - at0, o)
    IN  IF r.ok
        THEN [ok |-> TRUE, buf |-> WriteAt(b, at0, r.bytes),
              pos |-> IF p = c THEN 0 ELSE p, cap |-> at0 + r.n,
              inner |-> r.inner, reads |-> 1]
        ELSE [ok |-> FALSE, buf |-> b, pos |-> p, cap |-> c,
              inner |-> r.inner, reads |-> 1]

\* a fill_buf that reads the Source once more after a short read
FillBufOfRetry(b, p, c, s, o) ==
    IF p = c
    THEN LET r == InnerRead(s, Len(b), o) IN
         IF ~r.ok
         THEN [ok |-> FALSE, buf |-> b, pos |-> p, cap |-> c,
               inner |-> r.inner, reads |-> 1]
         ELSE IF r.n = Len(b)
         THEN [ok |-> TRUE, buf |-> WriteAt(b, 0, r.bytes), pos |-> 0,
               cap |-> r.n, inner |-> r.inner, reads |-> 1]
         ELSE LET r2 == InnerRead(r.inner, Len(b) - r.n, o) IN
              [ok |-> TRUE,
               buf |-> WriteAt(WriteAt(b, 0, r.bytes), r.n, r2.bytes),
               pos |-> 0, cap |-> r.n + r2.n, inner |-> r2.inner,
               reads |-> 2]
    ELSE [ok |-> TRUE, buf |-> b, pos |-> p, cap |-> c, inner |-> s,
          reads |-> 0]

\* BufRead::fill_buf on (buf, pos, cap) over Source s with read outcome o
FillBufOf(b, p, c, s, o) ==
    IF p = c
    THEN LET r == InnerRead(s, Len(b), o) IN
         IF r.ok
         THEN [ok |-> TRUE, buf |-> WriteAt(b, 0, r.bytes), pos |-> 0,
               cap |-> r.n, inner |-> r.inner, reads |-> 1]
         ELSE [ok |-> FALSE, buf |-> b, pos |-> p, cap |-> c,
               inner |-> r.inner, reads |-> 1]
    ELSE [ok |-> TRUE, buf |-> b, pos |-> p, cap |-> c, inner |-> s,
          reads |-> 0]

\* a compaction test without the threshold
ShouldMoveNoThreshold(len, p, c) == len - c < p

\* the test that makes read_into_buf compact first
ShouldMove(len, p, c) == len - c < p /\ p > MOVE_THRESHOLD

\* BufReader::read_into_buf
ReadIntoBufOf(b, p, c, s, o) ==
    IF p = c
    THEN LET r == InnerRead(s, Len(b), o) IN
         IF r.ok
         THEN [ok |-> TRUE, buf |-> WriteAt(b, 0, r.bytes), pos |-> 0,
               cap |-> r.n, inner |-> r.inner, moved |-> FALSE,
               reads |-> 1]
         ELSE [ok |-> FALSE, buf |-> b, pos |-> p, cap |-> c,
               inner |-> r.inner, moved |-> FALSE, reads |-> 1]
    ELSE LET mv == ShouldMove(Len(b), p, c)
             m == IF mv THEN MakeRoomOf(b, p, c)
                        ELSE [buf |-> b, pos |-> p, cap |-> c]
             r == InnerRead(s, Len(m.buf) - m.cap, o)
         IN  IF r.ok
             THEN [ok |-> TRUE, buf |-> WriteAt(m.buf, m.cap, r.bytes),
                   pos |-> m.pos, cap |-> m.cap + r.n, inner |-> r.inner,
                   moved |-> mv, reads |-> 1]
             ELSE [ok |-> FALSE, buf |-> m.buf, pos |-> m.pos, cap |-> m.cap,
                   inner |-> r.inner, moved |-> mv, reads |-> 1]

\* a bypass that does not look at the buffered bytes
BypassesUnread(len, p, c, n) == n >= len

\* the large-read bypass test of BufReader::read
Bypasses(len, p, c, n) == p = c /\ n >= len

\* a read that always goes through the internal buffer
ReadOfBuffered(b, p, c, s, n, o) ==
    LET f == FillBufOf(b, p, c, s, o) IN
    IF ~f.ok
    THEN [ok |-> FALSE, ret |-> 0, got |-> <<>>, buf |-> f.buf,
          pos |-> f.pos, cap |-> f.cap, inner |-> f.inner,
          reads |-> f.reads]
    ELSE LET rem == Slice(f.buf, f.pos, f.cap)
             nread == Min(n, Len(rem))
         IN  [ok |-> TRUE, ret |-> nread, got |-> SubSeq(rem, 1, nread),
              buf |-> f.buf, pos |-> ConsumePos(f.pos, f.cap, nread),
              cap |-> f.cap, inner |-> f.inner, reads |-> f.reads]

\* impl Read for BufReader: read(dest) with dest.len() = n
ReadOf(b, p, c, s, n, o) ==
    IF Bypasses(Len(b), p, c, n)
    THEN LET r == InnerRead(s, n, o) IN
         [ok |-> r.ok, ret |-> r.n, got |-> r.bytes, buf |-> b, pos |-> p,
          cap |-> c, inner |-> r.inner, reads |-> 1]
    ELSE LET f == FillBufOf(b, p, c, s, o) IN
         IF ~f.ok
         THEN [ok |-> FALSE, ret |-> 0, got |-> <<>>, buf |-> f.buf,
               pos |-> f.pos, cap |-> f.cap, inner |-> f.inner,
               reads |-> f.reads]
         ELSE LET rem == Slice(f.buf, f.pos, f.cap)
                  nread == Min(n, Len(rem))
              IN  [ok |-> TRUE, ret |-> nread, got |-> SubSeq(rem, 1, nread),
                   buf |-> f.buf, pos |-> ConsumePos(f.pos, f.cap, nread),
                   cap |-> f.cap, inner |-> f.inner, reads |-> f.reads]

\* i64::checked_sub
CheckedSub(n, r) ==
    IF n - r < I64Min \/ n - r > I64Max
    THEN [some |-> FALSE, v |-> 0]
    ELSE [some |-> TRUE, v |-> n - r]

\* the record of one R::seek call
Sought(from, r) == [from |-> from, ok |-> r.ok]

\* let remainder = (self.cap - self.pos) as i64
Remainder(p, c) == c - p

\* the two-seek branch without `self.pos = self.cap` between the seeks
SeekTwoStepKeeps(p, c, s, n, fail1, fail2) ==
    LET remainder == Remainder(p, c)
        first == SeekFrom("Current", -remainder)
        r1 == InnerSeek(s, first, fail1)
        second == SeekFrom("Current", n)
        r2 == InnerSeek(r1.inner, second, fail2)
    IN  IF ~r1.ok
        THEN [ok |-> FALSE, ret |-> 0, pos |-> p, inner |-> r1.inner,
              sought |-> <<Sought(first, r1)>>]
        ELSE IF ~r2.ok
        THEN [ok |-> FALSE, ret |-> 0, pos |-> p, inner |-> r2.inner,
              sought |-> <<Sought(first, r1), Sought(second, r2)>>]
        ELSE [ok |-> TRUE, ret |-> r2.pos, pos |-> c, inner |-> r2.inner,
              sought |-> <<Sought(first, r1), Sought(second, r2)>>]

\* the two-seek branch of seek(Current(n)): rewind by the remainder, empty
\* the buffer, then seek by n.  fail1, fail2: injected Source failures.
SeekTwoStep(p, c, s, n, fail1, fail2) ==
    LET remainder == Remainder(p, c)
        first == SeekFrom("Current", -remainder)
        r1 == InnerSeek(s, first, fail1)
        second == SeekFrom("Current", n)
        r2 == InnerSeek(r1.inner, second, fail2)
    IN  IF ~r1.ok
        THEN [ok |-> FALSE, ret |-> 0, pos |-> p, inner |-> r1.inner,
              sought |-> <<Sought(first, r1)>>]
        ELSE IF ~r2.ok
        THEN [ok |-> FALSE, ret |-> 0, pos |-> c, inner |-> r2.inner,
              sought |-> <<Sought(first, r1), Sought(second, r2)>>]
        ELSE [ok |-> TRUE, ret |-> r2.pos, pos |-> c, inner |-> r2.inner,
              sought |-> <<Sought(first, r1), Sought(second, r2)>>]

\* a single forwarded seek: on Err the handler returns before the buffer is
\* emptied
SeekOneStep(p, c, s, from, fail1) ==
    LET r == InnerSeek(s, from, fail1) IN
    IF r.ok
    THEN [ok |-> TRUE, ret |-> r.pos, pos |-> c, inner |-> r.inner,
          sought |-> <<Sought(from, r)>>]
    ELSE [ok |-> FALSE, ret |-> 0, pos |-> p, inner |-> r.inner,
          sought |-> <<Sought(from, r)>>]

\* impl Seek for BufReader: seek(from)
SeekOf(p, c, s, from, fail1, fail2) ==
    IF from.kind = "Current"
    THEN LET remainder == Remainder(p, c)
             offset == CheckedSub(from.n, remainder)
         IN  IF offset.some
             THEN SeekOneStep(p, c, s, SeekFrom("Current", offset.v), fail1)
             ELSE SeekTwoStep(p, c, s, from.n, fail1, fail2)
    ELSE SeekOneStep(p, c, s, from, fail1)

\* BufReader::unbuffer: self.buf.truncate(self.cap)
Truncate(b, c) == IF c < Len(b) THEN SubSeq(b, 1, c) ELSE b

\* BufReader::into_inner_with_buf: make_room, then truncate to cap
IntoInnerWithBufOf(b, p, c) ==
    LET m == MakeRoomOf(b, p, c) IN
    [buf |-> Truncate(m.buf, m.cap), pos |-> m.pos, cap |-> m.cap]

\* the drain-completion statement of Unbuffer::read, `self.buf == Vec::new();`:
\* a comparison whose result is dropped, so the Vec is what it was
DrainCompletion(b) == b

\* a read that tops the destination up from the Source once the remnant is
\* copied
UnbufferReadTopUp(b, p, s, n, o) ==
    IF p < Len(b)
    THEN LET read == Min(n, Len(b) - p)
             p2 == p + read
             r == InnerRead(s, n - read, o)
         IN  IF read < n /\ r.ok
             THEN [ok |-> TRUE, ret |-> read + r.n,
                   got |-> Slice(b, p, p2) \o r.bytes,
                   buf |-> IF p2 = Len(b) THEN DrainCompletion(b) ELSE b,
                   pos |-> p2, inner |-> r.inner, reads |-> 1]
             ELSE [ok |-> TRUE, ret |-> read, got |-> Slice(b, p, p2),
                   buf |-> IF p2 = Len(b) THEN DrainCompletion(b) ELSE b,
                   pos |-> p2, inner |-> s, reads |-> 0]
    ELSE LET r == InnerRead(s, n, o) IN
         [ok |-> r.ok, ret |-> r.n, got |-> r.bytes, buf |-> b, pos |-> p,
          inner |-> r.inner, reads |-> 1]

\* impl Read for Unbuffer: read(dest) with dest.len() = n
UnbufferReadOf(b, p, s, n, o) ==
    IF p < Len(b)
    THEN LET read == Min(n, Len(b) - p)
             p2 == p + read
         IN  [ok |-> TRUE, ret |-> read, got |-> Slice(b, p, p2),
              buf |-> IF p2 = Len(b) THEN DrainCompletion(b) ELSE b,
              pos |-> p2, inner |-> s, reads |-> 0]
    ELSE LET r == InnerRead(s, n, o) IN
         [ok |-> r.ok, ret |-> r.n, got |-> r.bytes, buf |-> b, pos |-> p,
          inner |-> r.inner, reads |-> 1]

\* Unbuffer::is_buf_empty
IsBufEmpty == pos >= Len(buf)

\* Unbuffer::buf_len: self.buf.len().saturating_sub(self.pos)
BufLen == IF Len(buf) >= pos THEN Len(buf) - pos ELSE 0

----------------------------------------------------------------------------
(* Inputs. *)

DestLens == 0..MaxDest

ConsumeAmts == (0..MaxDest) \cup {UsizeMax}

GrowAmts == 0..MaxCapacity

SeekArgs ==
    {SeekFrom("Start", 0), SeekFrom("Current", 0), SeekFrom("Current", -1)}

\* seeks that reach the ends of the offset range as well
WideSeekArgs ==
    {SeekFrom("Start", 0), SeekFrom("Start", I64Max + 1), SeekFrom("End", 0)}
    \cup {SeekFrom("Current", n) : n \in {-1, 0, 1, I64Min, I64Min + 1, I64Max}}

\* which of the Source seeks of one call fails: none, the first, the second
SeekFailures == {<<FALSE, FALSE>>, <<TRUE, FALSE>>, <<FALSE, TRUE>>}

\* the Source positions seeks are followed to: the start of the stream and
\* the stretch past I64Max
Positions ==
    (0..(MaxStream + 1)) \cup ((I64Max + 1)..(I64Max + MaxStream + 2))

\* a Source that reaches past the signed offset range
Endless(s) == s.len > I64Max

\* reads of an endless Source are followed for MaxOut bytes from `base`
MayDeliver == Endless(inner) => (Len(out) < MaxOut /\ inner.at < base + MaxOut)

----------------------------------------------------------------------------
(* Actions: one per method. *)

MakeRoom ==
    /\ phase = "reader"
    /\ LET m == MakeRoomOf(buf, pos, cap) IN
       /\ buf' = m.buf
       /\ pos' = m.pos
       /\ cap' = m.cap
       /\ base' = IF wrapped THEN base ELSE inner.at - (m.cap - m.pos)
    /\ out' = IF wrapped THEN out ELSE <<>>
    /\ last' = Call("make_room", 0, TRUE, 0, <<>>, 0, <<>>)
    /\ UNCHANGED <<phase, inner, vcap, wrapped>>

Grow(additional, slack) ==
    /\ phase = "reader"
    /\ LET g == GrowVec(buf, vcap, additional, slack) IN
       /\ Len(g.buf) <= MaxBufLen
       /\ buf' = g.buf
       /\ vcap' = g.vcap
    /\ last' = [op |-> "grow", arg |-> additional, slack |-> slack,
                ok |-> TRUE, ret |-> 0, got |-> <<>>, reads |-> 0,
                sought |-> <<>>]
    /\ UNCHANGED <<phase, inner, pos, cap, base, out, wrapped>>

ReadIntoBuf(o) ==
    /\ phase = "reader"
    /\ MayDeliver
    /\ LET r == ReadIntoBufOf(buf, pos, cap, inner, o) IN
       /\ buf' = r.buf
       /\ pos' = r.pos
       /\ cap' = r.cap
       /\ inner' = r.inner
       /\ last' = [op |-> "read_into_buf", arg |-> 0, ok |-> r.ok,
                   ret |-> IF r.ok THEN r.cap ELSE 0, got |-> <<>>,
                   reads |-> r.reads, sought |-> <<>>, moved |-> r.moved]
    /\ UNCHANGED <<phase, vcap, base, out, wrapped>>

Read(n, o) ==
    /\ phase = "reader"
    /\ MayDeliver
    /\ LET r == ReadOf(buf, pos, cap, inner, n, o) IN
       /\ buf' = r.buf
       /\ pos' = r.pos
       /\ cap' = r.cap
       /\ inner' = r.inner
       /\ out' = IF wrapped THEN out ELSE out \o r.got
       /\ last' = Call("read", n, r.ok, r.ret, r.got, r.reads, <<>>)
    /\ UNCHANGED <<phase, vcap, base, wrapped>>

FillBuf(o) ==
    /\ phase = "reader"
    /\ MayDeliver
    /\ LET f == FillBufOf(buf, pos, cap, inner, o) IN
       /\ buf' = f.buf
       /\ pos' = f.pos
       /\ cap' = f.cap
       /\ inner' = f.inner
       /\ last' = Call("fill_buf", 0, f.ok, f.cap - f.pos,
                       <<>>,
                       f.reads, <<>>)
    /\ UNCHANGED <<phase, vcap, base, out, wrapped>>

\* consume(amt).  When pos + amt overflows usize the build decides: with
\* overflow checks the addition panics and nothing is assigned, without them
\* the sum wraps.
Consume(amt, panics) ==
    /\ phase = "reader"
    /\ MayDeliver
    /\ panics => UsizeOverflows(pos, amt)
    /\ IF panics
       THEN /\ last' = Call("consume", amt, FALSE, 0, <<>>, 0, <<>>)
            /\ UNCHANGED <<pos, out, wrapped>>
       ELSE LET p2 == ConsumePos(pos, cap, amt) IN
            /\ pos' = p2
            /\ out' = IF p2 >= pos /\ ~wrapped
                      THEN out \o Slice(buf, pos, Min(p2, Len(buf))) ELSE out
            /\ wrapped' = (wrapped \/ UsizeOverflows(pos, amt))
            /\ last' = Call("consume", amt, TRUE, 0, <<>>, 0, <<>>)
    /\ UNCHANGED <<phase, inner, buf, vcap, cap, base>>

Seek(from, fail1, fail2) ==
    /\ phase = "reader"
    /\ LET r == SeekOf(pos, cap, inner, from, fail1, fail2) IN
       /\ r.inner.at \in Positions
       /\ pos' = r.pos
       /\ inner' = r.inner
       /\ base' = IF r.ok THEN r.ret ELSE base
       /\ out' = IF r.ok THEN <<>> ELSE out
       /\ wrapped' = IF r.ok THEN FALSE ELSE wrapped
       /\ last' = Call("seek", from, r.ok, r.ret, <<>>, 0, r.sought)
    /\ UNCHANGED <<phase, buf, vcap, cap>>

\* into_inner_with_buf(): the reader is consumed; `buf` is the Vec handed back
IntoInnerWithBuf ==
    /\ phase = "reader"
    /\ phase' = "detached"
    /\ LET r == IntoInnerWithBufOf(buf, pos, cap) IN
       /\ buf' = r.buf
       /\ pos' = r.pos
       /\ cap' = r.cap
    /\ last' = Call("into_inner_with_buf", 0, TRUE, 0, <<>>, 0, <<>>)
    /\ UNCHANGED <<inner, vcap, base, out, wrapped>>

Unbuffer ==
    /\ phase = "reader"
    /\ phase' = "unbuffer"
    /\ buf' = Truncate(buf, cap)
    /\ last' = Call("unbuffer", 0, TRUE, 0, <<>>, 0, <<>>)
    /\ UNCHANGED <<inner, vcap, pos, cap, base, out, wrapped>>

UnbufferRead(n, o) ==
    /\ phase = "unbuffer"
    /\ MayDeliver
    /\ LET r == UnbufferReadOf(buf, pos, inner, n, o) IN
       /\ buf' = r.buf
       /\ pos' = r.pos
       /\ inner' = r.inner
       /\ out' = IF wrapped THEN out ELSE out \o r.got
       /\ last' = Call("unbuffer_read", n, r.ok, r.ret, r.got, r.reads, <<>>)
    /\ UNCHANGED <<phase, vcap, cap, base, wrapped>>

\* every call but seek
NextBuf ==
    \/ MakeRoom
    \/ \E a \in GrowAmts, slack \in Slacks : Grow(a, slack)
    \/ \E o \in ReadOutcomes : ReadIntoBuf(o)
    \/ \E n \in DestLens, o \in ReadOutcomes : Read(n, o)
    \/ \E o \in ReadOutcomes : FillBuf(o)
    \/ \E amt \in ConsumeAmts, panics \in BOOLEAN : Consume(amt, panics)
    \/ IntoInnerWithBuf
    \/ Unbuffer
    \/ \E n \in DestLens, o \in ReadOutcomes : UnbufferRead(n, o)

Next ==
    \/ NextBuf
    \/ \E from \in SeekArgs, fail1 \in BOOLEAN : Seek(from, fail1, FALSE)

Spec == Init /\ [][Next]_vars

SpecBuf == Init /\ [][NextBuf]_vars

\* buffered reads and seeks over the whole offset range
NextSeek ==
    \/ \E o \in ReadOutcomes : ReadIntoBuf(o)
    \/ \E n \in DestLens, o \in ReadOutcomes : Read(n, o)
    \/ \E o \in ReadOutcomes : FillBuf(o)
    \/ \E amt \in DestLens : Consume(amt, FALSE)
    \/ \E from \in WideSeekArgs, fail \in SeekFailures :
          Seek(from, fail[1], fail[2])

SpecSeek == InitSeek /\ [][NextSeek]_vars

\* buffers longer than MOVE_THRESHOLD, where read_into_buf may compact:
\* capacities with no room and with ample room behind a full first read
LargeCapacities == {MOVE_THRESHOLD + 2, 2 * MOVE_THRESHOLD + 4}

LargeSources ==
    [len : (MOVE_THRESHOLD + 2)..(MOVE_THRESHOLD + 2 + MaxStream),
     seed : {0}, at : {0}]

InitLarge == InitWith(LargeSources, LargeCapacities, {0})

\* a failing read, a read cut short after MOVE_THRESHOLD + 1 bytes, a full one
LargeReadOutcomes == {0, MOVE_THRESHOLD + 1, UsizeMax}

\* amounts that step up to and over MOVE_THRESHOLD
LargeAmts == {MOVE_THRESHOLD, MOVE_THRESHOLD + 1}

\* destinations: those, and one as long as the longest buffer
LargeDests == LargeAmts \cup {2 * MOVE_THRESHOLD + 4}

NextLarge ==
    \/ \E o \in LargeReadOutcomes : ReadIntoBuf(o)
    \/ \E n \in LargeDests, o \in LargeReadOutcomes : Read(n, o)
    \/ \E o \in LargeReadOutcomes : FillBuf(o)
    \/ \E amt \in LargeAmts : Consume(amt, FALSE)

SpecLarge == InitLarge /\ [][NextLarge]_vars

----------------------------------------------------------------------------
(* Properties. *)

\* the bytes still owed to the caller: buf[pos..cap], or buf[pos..] of an
\* Unbuffer
Unread == IF phase = "reader" THEN GetBuf ELSE Slice(buf, pos, Len(buf))

\* what the Source handed over since `base` is what the caller got followed
\* by what is still unread: nothing lost, duplicated or reordered
Conserved == Stream(inner, base, inner.at) = out \o Unread

\* C1: the bytes returned by the reads of a BufReader, followed by the bytes
\* still buffered, are the bytes the Source produced, in order; and once a
\* read of a non-empty destination returns 0 the caller has the whole stream.
C1_ReadRoundTrip ==
    (phase = "reader" /\ ~wrapped) =>
        /\ Conserved
        /\ (last.op = "read" /\ last.ok /\ last.arg > 0 /\ last.ret = 0)
              => out = Stream(inner, base, inner.len)

\* C1 witness: reads with short Source reads have delivered a whole stream of
\* MaxStream bytes and the last one reported the end of the stream
C1_Witness ==
    /\ phase = "reader"
    /\ last.op = "read" /\ last.ok /\ last.arg > 0 /\ last.ret = 0
    /\ base = 0
    /\ inner.len = MaxStream
    /\ out = Stream(inner, 0, MaxStream)

\* C2: 0 <= pos <= cap <= L in every state of a BufReader, and
\* 0 <= pos <= N in every state of an Unbuffer, N being the length the
\* buffer was truncated to (cap at the transition).
C2_CursorBounds ==
    /\ phase = "reader" => (0 <= pos /\ pos <= cap /\ cap <= Len(buf))
    /\ phase = "unbuffer" => (0 <= pos /\ pos <= cap)

\* C2 witness: read_into_buf has filled the buffer to its end while part of
\* it was consumed
C2_Witness ==
    /\ phase = "reader"
    /\ last.op = "read_into_buf" /\ last.ok
    /\ 0 < pos /\ pos < cap /\ cap = Len(buf)

\* C3: make_room leaves the unread bytes and available() as they were and
\* moves them to offset 0.
C3_MakeRoomPreserves ==
    [][last'.op = "make_room" =>
          (GetBuf' = GetBuf /\ Available' = Available /\ pos' = 0)]_vars

\* C4: after every seek, successful or not, pos = cap.
C4_SeekEmpties == last.op = "seek" => pos = cap

\* C5: a successful seek(Current(n)) after buffered reads returns, and leaves
\* the Source at, the position of the bytes handed to the caller plus n; when
\* n - (cap - pos) fits the offset range it is one Source seek,
\* Current(n - (cap - pos)).
C5_SeekCurrent ==
    [][(last'.op = "seek" /\ last'.arg.kind = "Current" /\ last'.ok) =>
          LET n == last'.arg.n
              delta == n - (cap - pos)
          IN  /\ last'.ret = base + Len(out) + n
              /\ inner'.at = last'.ret
              /\ delta >= I64Min =>
                    last'.sought =
                        <<[from |-> SeekFrom("Current", delta), ok |-> TRUE]>>
      ]_vars

\* C6: when n - (cap - pos) underflows, seek(Current(n)) seeks the Source by
\* Current(-(cap - pos)) and then by Current(n); when the first succeeds and
\* the second fails the call fails, the Source is at the reader's position
\* before the call and the buffer is empty.
C6_TwoStepRecovery ==
    [][(last'.op = "seek" /\ last'.arg.kind = "Current"
            /\ last'.arg.n - (cap - pos) < I64Min) =>
          LET n == last'.arg.n
              sought == last'.sought
          IN  /\ Len(sought) >= 1
              /\ sought[1].from = SeekFrom("Current", -(cap - pos))
              /\ Len(sought) = (IF sought[1].ok THEN 2 ELSE 1)
              /\ Len(sought) = 2 => sought[2].from = SeekFrom("Current", n)
              /\ (Len(sought) = 2 /\ ~sought[2].ok) =>
                    /\ ~last'.ok
                    /\ inner'.at = inner.at - (cap - pos)
                    /\ inner'.at = base + Len(out)
                    /\ pos' = cap'
      ]_vars

\* C6 witness: the rewind succeeded, the second seek failed, and the reader
\* is left empty
C6_Witness ==
    /\ last.op = "seek" /\ last.arg.kind = "Current" /\ ~last.ok
    /\ Len(last.sought) = 2
    /\ last.sought[1].ok /\ last.sought[1].from.n < 0
    /\ ~last.sought[2].ok
    /\ pos = cap

\* C7: consume(amt) sets pos to min(pos + amt, cap), the sum taken in
\* unbounded arithmetic, for every amt of the machine word.
C7_ConsumeClamps ==
    [][last'.op = "consume" => pos' = Min(pos + last'.arg, cap)]_vars

\* C8: an Unbuffer with pos < N copies min(len(dest), N - pos) remnant bytes,
\* advances pos by that and does not touch the Source; with pos >= N it
\* makes one Source read into dest and returns its result.
C8_UnbufferDrainsFirst ==
    [][last'.op = "unbuffer_read" =>
          LET n == last'.arg
              N == Len(buf)
          IN  IF pos < N
              THEN /\ last'.ok
                   /\ last'.ret = Min(n, N - pos)
                   /\ last'.got = Slice(buf, pos, pos + last'.ret)
                   /\ pos' = pos + last'.ret
                   /\ last'.reads = 0
                   /\ inner' = inner
              ELSE /\ last'.reads = 1
                   /\ pos' = pos
                   /\ last'.ok =>
                         /\ last'.ret = inner'.at - inner.at
                         /\ last'.got = Stream(inner, inner.at, inner'.at)
                   /\ ~last'.ok => (inner' = inner /\ last'.got = <<>>)
      ]_vars

\* C8 witness: a read into a destination longer than the remnant returned
\* only the remnant while the Source had more bytes
C8_Witness ==
    /\ phase = "unbuffer"
    /\ last.op = "unbuffer_read" /\ last.reads = 0
    /\ last.ret > 0 /\ last.arg > last.ret
    /\ inner.at < inner.len

\* C9: across unbuffer() and the reads of the Unbuffer the bytes handed to
\* the caller followed by the unread remnant stay the Source's stream, and
\* buf_len() right after unbuffer() is available() right before it.
C9_UnbufferContinuity ==
    [][/\ phase' = "unbuffer" => Conserved'
       /\ last'.op = "unbuffer" => BufLen' = Available]_vars

\* C10: once a read has advanced pos to N the remnant storage has length 0,
\* and it keeps length 0.
C10_UnbufferReleases ==
    [][/\ (last'.op = "unbuffer_read" /\ pos < Len(buf) /\ pos' = cap)
            => Len(buf') = 0
       /\ (phase = "unbuffer" /\ Len(buf) = 0) => Len(buf') = 0]_vars

\* C11: into_inner_with_buf returns a buffer that is the unread bytes
\* buf[pos..cap] of the reader, of length available(), from offset 0.
C11_IntoInnerWithBuf ==
    [][last'.op = "into_inner_with_buf" =>
          (buf' = GetBuf /\ Len(buf') = Available)]_vars

\* C12: grow(additional) makes capacity() at least additional larger, fills
\* the new bytes with zero and leaves pos, cap and the old bytes (so the
\* unread bytes) as they were; with_capacity(c), a grow of the empty
\* buffer, starts with at least c zero bytes.
C12_GrowMonotonic ==
    /\ last.op = "with_capacity" =>
          /\ Len(buf) >= last.arg
          /\ buf = Zeros(Len(buf))
          /\ pos = 0 /\ cap = 0
    /\ [][last'.op = "grow" =>
             /\ Len(buf') >= Len(buf) + last'.arg
             /\ SubSeq(buf', 1, Len(buf)) = buf
             /\ \A i \in (Len(buf) + 1)..Len(buf') : buf'[i] = 0
             /\ pos' = pos /\ cap' = cap
             /\ GetBuf' = GetBuf
         ]_vars

\* C12 witness: a grow by a positive amount of a buffer that holds unread
\* bytes
C12_Witness ==
    /\ phase = "reader"
    /\ last.op = "grow" /\ last.arg > 0
    /\ pos < cap /\ cap < Len(buf)
    /\ \E i \in (pos + 1)..cap : buf[i] # 0

\* C19: after grow(additional) the buffer is as long as the capacity the
\* allocator delivered for the one reservation of L + additional bytes; when
\* the allocator delivers what is asked and the Vec had no spare capacity
\* that is L + additional.
C19_GrowExact ==
    [][last'.op = "grow" =>
          /\ Len(buf') =
                ReserveExact(Len(buf), vcap, last'.arg, last'.slack)
          /\ (last'.slack = 0 /\ vcap = Len(buf)) =>
                Len(buf') = Len(buf) + last'.arg
      ]_vars

\* C13: read(dest) with pos = cap and len(dest) >= L makes one Source read
\* into dest, returns its result and leaves pos, cap and the buffer alone;
\* otherwise the bytes returned are buffer bytes, after at most one refill
\* (from offset 0, when pos = cap), and pos advances by the count returned.
C13_LargeReadBypass ==
    [][last'.op = "read" =>
          IF pos = cap /\ last'.arg >= Len(buf)
          THEN /\ last'.reads = 1
               /\ pos' = pos /\ cap' = cap /\ buf' = buf
               /\ last'.ok =>
                     /\ last'.ret = inner'.at - inner.at
                     /\ last'.got = Stream(inner, inner.at, inner'.at)
               /\ ~last'.ok => (inner' = inner /\ last'.got = <<>>)
          ELSE LET p0 == IF pos = cap THEN 0 ELSE pos IN
               /\ last'.reads = (IF pos = cap THEN 1 ELSE 0)
               /\ last'.ok =>
                     /\ last'.got = Slice(buf', p0, p0 + last'.ret)
                     /\ pos' = p0 + last'.ret
                     /\ pos' <= cap'
      ]_vars

\* C13 witness: a read handed over Source bytes while the buffer, of
\* non-zero length, still holds only the zeros it was created with
C13_Witness ==
    /\ phase = "reader"
    /\ last.op = "read" /\ last.ok /\ last.ret > 0
    /\ last.arg >= Len(buf) /\ Len(buf) > 0
    /\ pos = cap
    /\ buf = Zeros(Len(buf))

\* C14: read, fill_buf and read_into_buf of a BufReader and read of an
\* Unbuffer make at most one Source read per call, and none when the call is
\* served from buffered bytes (read and fill_buf with pos < cap, Unbuffer
\* read with pos < N); a call that makes no Source read leaves the Source
\* where it was.
C14_SingleAttempt ==
    [][last'.op \in {"read", "fill_buf", "read_into_buf", "unbuffer_read"} =>
          /\ last'.reads <= 1
          /\ (last'.op \in {"read", "fill_buf"} /\ pos < cap) =>
                last'.reads = 0
          /\ (last'.op = "unbuffer_read" /\ pos < Len(buf)) =>
                last'.reads = 0
          /\ last'.reads = 0 => inner' = inner
      ]_vars

\* C14 witness: a read into a destination longer than the buffered bytes
\* returned only those, without a Source read, while the Source had more
C14_Witness ==
    /\ phase = "reader"
    /\ last.op = "read" /\ last.ok /\ last.reads = 0
    /\ last.ret > 0 /\ last.arg > last.ret
    /\ inner.at < inner.len

\* C15: when read_into_buf returns Ok(k), k is available() = cap - pos of
\* the state it leaves.
C15_ReadIntoBufAvailable ==
    (phase = "reader" /\ last.op = "read_into_buf" /\ last.ok) =>
        last.ret = Available

\* C16: a fill_buf that directly follows a successful fill_buf returns the
\* same span, leaves pos and cap as they are and makes no Source read.
C16_FillBufIdempotent ==
    [][(last.op = "fill_buf" /\ last.ok /\ last'.op = "fill_buf") =>
          /\ last'.ok
          /\ GetBuf' = GetBuf
          /\ pos' = pos /\ cap' = cap
          /\ last'.reads = 0
      ]_vars

\* C16 as amended: a successful fill_buf that returns a non-empty span
\* leaves pos < cap, and every fill_buf called with pos < cap returns the
\* span buf[pos..cap] as it is, changes nothing and makes no Source read;
\* a fill_buf called with pos = cap makes one Source read.
C16_FillBufIdempotentNonEmpty ==
    [][last'.op = "fill_buf" =>
          /\ (last'.ok /\ last'.ret > 0) =>
                (pos' < cap' /\ last'.ret = Available')
          /\ pos < cap =>
                /\ last'.ok
                /\ last'.ret = Available
                /\ GetBuf' = GetBuf
                /\ pos' = pos /\ cap' = cap /\ buf' = buf
                /\ last'.reads = 0
                /\ inner' = inner
          /\ pos = cap => last'.reads = 1
      ]_vars

\* C16 witness: a fill_buf returned the bytes an earlier refill left at
\* offset 0, without a Source read, while the Source had more
C16_Witness ==
    /\ phase = "reader"
    /\ last.op = "fill_buf" /\ last.ok /\ last.reads = 0
    /\ pos = 0 /\ pos < cap
    /\ last.ret = cap
    /\ inner.at < inner.len

\* the span read, fill_buf or read_into_buf hands to the Source when it
\* reads: dest on the bypass, the whole buffer when pos = cap, else the tail
\* behind the unread bytes, which a compaction has moved to offset 0
SpanOffered(op, n) ==
    IF pos = cap
    THEN IF op = "read" /\ n >= Len(buf) THEN n ELSE Len(buf)
    ELSE IF ShouldMove(Len(buf), pos, cap)
         THEN Len(buf) - (cap - pos)
         ELSE Len(buf) - cap

\* C17: when the Source read of read, fill_buf or read_into_buf fails the
\* call fails, hands over no bytes and leaves available(), the unread bytes
\* and the Source as they were, so the stream continues from there; and a
\* call that succeeds after reading a Source that had bytes for a non-empty
\* span got bytes from it: no failure is turned into a read of nothing.
C17_ReadErrors ==
    [][last'.op \in {"read", "fill_buf", "read_into_buf"} =>
          /\ ~last'.ok =>
                /\ last'.reads = 1
                /\ last'.got = <<>>
                /\ Available' = Available
                /\ GetBuf' = GetBuf
                /\ inner' = inner
                /\ out' = out
                /\ Conserved'
          /\ (last'.ok /\ last'.reads = 1 /\ inner.at < inner.len
                /\ SpanOffered(last'.op, last'.arg) > 0) =>
                inner'.at > inner.at
      ]_vars

\* C17 witness: a read_into_buf whose Source read failed after the unread
\* bytes had been moved to offset 0
C17_Witness ==
    /\ phase = "reader"
    /\ last.op = "read_into_buf" /\ ~last.ok /\ last.moved
    /\ pos = 0 /\ cap > 0
    /\ inner.at < inner.len

\* C18: read_into_buf moves the unread bytes to offset 0 first exactly when
\* pos # cap, pos > L - cap and pos > MOVE_THRESHOLD; in every other state
\* with pos # cap it leaves pos and appends what the Source returns at
\* buf[cap..]; either way the unread bytes afterwards are the unread bytes
\* before followed by the bytes the Source returned.
C18_CompactionPolicy ==
    [][last'.op = "read_into_buf" =>
          LET L == Len(buf)
              move == pos # cap /\ pos > L - cap /\ pos > MOVE_THRESHOLD
              got == Stream(inner, inner.at, inner'.at)
          IN  /\ last'.moved = move
              /\ move => (pos' = 0 /\ Slice(buf', 0, cap - pos) = GetBuf)
              /\ (pos # cap /\ ~move) =>
                    /\ pos' = pos
                    /\ Slice(buf', 0, cap) = Slice(buf, 0, cap)
                    /\ last'.ok =>
                          (cap' = cap + Len(got) /\ Slice(buf', cap, cap') = got)
              /\ last'.ok => GetBuf' = GetBuf \o got
              /\ ~last'.ok => GetBuf' = GetBuf
      ]_vars

\* C18 witness: a read_into_buf moved the unread bytes to offset 0 and
\* appended Source bytes behind them
C18_Witness ==
    /\ phase = "reader"
    /\ last.op = "read_into_buf" /\ last.ok /\ last.moved
    /\ pos = 0 /\ cap >= 2
    /\ inner.at = inner.len
    /\ GetBuf = Stream(inner, inner.at - cap, inner.at)

\* C20: a successful read_into_buf called with available() < L on a Source
\* that is not at its end leaves available() larger; one that adds nothing
\* was called at the end of the stream or with L unread bytes.
C20_RefillProgress ==
    [][(last'.op = "read_into_buf" /\ last'.ok) =>
          /\ (Available < Len(buf) /\ inner.at < inner.len) =>
                Available' > Available
          /\ Available' = Available =>
                (inner.at >= inner.len \/ Available = Len(buf))
      ]_vars

====
